---- MODULE Spec2Model ----
(***************************************************************************)
(* Model of pyunfold's D'Agostini mixer (src/pyunfold/mix.py) and of the   *)
(* safe_inverse helper it relies on (src/pyunfold/Utils.py).               *)
(*                                                                         *)
(* Numbers are exact rationals <<num, den>>.  A zero denominator encodes   *)
(* the IEEE results of a division by zero: <<1,0>> is +inf, <<-1,0>> is    *)
(* -inf and <<0,0>> is NaN, so that 1/x is total as it is in numpy.        *)
(* Floating-point rounding is not modelled.                                *)
(* Vectors are sequences of numbers, matrices are sequences of rows.       *)
(***************************************************************************)
EXTENDS Integers, Sequences, FiniteSets, TLC

\* ------------------------------------------------------------------ bounds
\* number of smear calls that may complete on one Mixer
MaxIter == 2
\* largest numerator or denominator of a prior entry or a stored Jacobian
\* entry from which a further call is explored
MaxMag == 200
\* largest numerator or denominator of a response_err entry from which a
\* further covariance read is explored
MaxErrMag == 16

\* ------------------------------------------------------ rational arithmetic
Abs(n) == IF n < 0 THEN -n ELSE n
Sgn(n) == IF n < 0 THEN -1 ELSE IF n = 0 THEN 0 ELSE 1

RECURSIVE GCD(_, _)
GCD(a, b) == IF b = 0 THEN a ELSE GCD(b, a % b)

Norm(q) ==
    IF q[2] = 1 THEN q
    ELSE IF q[2] = 0 THEN <<Sgn(q[1]), 0>>
    ELSE LET g == GCD(Abs(q[1]), Abs(q[2]))
             s == Sgn(q[2])
         IN  <<(s * q[1]) \div g, (s * q[2]) \div g>>

Q(n, d) == Norm(<<n, d>>)
Zero == <<0, 1>>
One == <<1, 1>>
NaN == <<0, 0>>

IsZero(q) == q[1] = 0 /\ q[2] # 0
Mag(q) == IF Abs(q[1]) > q[2] THEN Abs(q[1]) ELSE q[2]
IsFinite(q) == q[2] # 0

RMul(p, q) ==
    IF (IsZero(p) /\ q[2] # 0) \/ (IsZero(q) /\ p[2] # 0) THEN <<0, 1>>
    ELSE Norm(<<p[1] * q[1], p[2] * q[2]>>)

RAdd(p, q) ==
    IF p = <<0, 1>> THEN q ELSE IF q = <<0, 1>> THEN p ELSE
    IF p[2] = 0 \/ q[2] = 0
    THEN IF p[2] = 0 /\ q[2] = 0
         THEN (IF p[1] = q[1] THEN p ELSE NaN)
         ELSE (IF p[2] = 0 THEN p ELSE q)
    ELSE LET g == GCD(p[2], q[2])
         IN  Norm(<<p[1] * (q[2] \div g) + q[1] * (p[2] \div g),
                    (p[2] \div g) * q[2]>>)

RNeg(p) == <<-p[1], p[2]>>
RSub(p, q) == RAdd(p, RNeg(q))
\* 1 / x as numpy computes it with divide='ignore': 1/0 is inf
Recip(p) == Norm(<<p[2], p[1]>>)

\* --------------------------------------------------------- vectors, matrices
\* an array with all its elements computed (as a tensor holds them); the
\* comparison makes TLC build the function once instead of on every access
Dense(f) == IF f = f THEN f ELSE f

RECURSIVE SumSeq(_)
SumSeq(v) == IF Len(v) = 0 THEN Zero ELSE RAdd(v[1], SumSeq(Tail(v)))

Rows(m) == Len(m)
Cols(m) == IF Len(m) = 0 THEN 0 ELSE Len(m[1])
Numel(m) == Rows(m) * Cols(m)

ZeroVec(n) == Dense([i \in 1..n |-> Zero])
ZeroMat(r, c) == Dense([i \in 1..r |-> [j \in 1..c |-> Zero]])
Transpose(m) == Dense([j \in 1..Cols(m) |-> [i \in 1..Rows(m) |-> m[i][j]]])
MatMul(a, b) ==
    Dense([i \in 1..Rows(a) |-> [j \in 1..Cols(b) |->
        SumSeq([k \in 1..Cols(a) |-> RMul(a[i][k], b[k][j])])]])
MatAdd(a, b) == Dense([i \in 1..Rows(a) |-> [j \in 1..Cols(a) |-> RAdd(a[i][j], b[i][j])]])
MatSub(a, b) == Dense([i \in 1..Rows(a) |-> [j \in 1..Cols(a) |-> RSub(a[i][j], b[i][j])]])
MatNeg(a) == Dense([i \in 1..Rows(a) |-> [j \in 1..Cols(a) |-> RNeg(a[i][j])]])
\* m * v with v broadcast along the last axis: column j is scaled by v[j]
ColScale(m, v) == Dense([i \in 1..Rows(m) |-> [j \in 1..Cols(m) |-> RMul(m[i][j], v[j])]])
\* row i is scaled by v[i]
RowScale(m, v) == Dense([i \in 1..Rows(m) |-> [j \in 1..Cols(m) |-> RMul(m[i][j], v[i])]])
\* v @ m for a vector v
VecMat(v, m) == Dense([j \in 1..Cols(m) |-> SumSeq([i \in 1..Rows(m) |-> RMul(v[i], m[i][j])])])
\* m @ v for a vector v
MatVec(m, v) == Dense([i \in 1..Rows(m) |-> SumSeq([j \in 1..Cols(m) |-> RMul(m[i][j], v[j])])])
VecMul(a, b) == Dense([i \in 1..Len(a) |-> RMul(a[i], b[i])])
Diag(v) == Dense([i \in 1..Len(v) |-> [j \in 1..Len(v) |-> IF i = j THEN v[i] ELSE Zero]])
Diagonal(m) == Dense([i \in 1..Rows(m) |-> m[i][i]])
\* row-major flattening (ravel)
Ravel(m) == Dense([k \in 1..Numel(m) |-> m[((k - 1) \div Cols(m)) + 1][((k - 1) % Cols(m)) + 1]])
\* inverse of Ravel for a given shape (a view of the same storage)
Unravel(v, r, c) == Dense([i \in 1..r |-> [j \in 1..c |-> v[(i - 1) * c + j]]])

\* elementwise product of two 1-d arrays under numpy/torch broadcasting
BroadcastOK(n, m) == n = m \/ n = 1 \/ m = 1
BLen(n, m) == IF n = 1 THEN m ELSE n
At(v, i) == IF Len(v) = 1 THEN v[1] ELSE v[i]
BMul(a, b) == Dense([i \in 1..BLen(Len(a), Len(b)) |-> RMul(At(a, i), At(b, i))])

\* ------------------------------------------------------------- safe_inverse
\* safe_inverse without the assignment inv[is_zero] = 0
safe_inverse_nomask(x) == Dense([i \in 1..Len(x) |-> Recip(x[i])])

\* Utils.py: inv = 1 / x ; inv[x == 0] = 0 ; a new array is returned
safe_inverse(x) ==
    LET is_zero == [i \in 1..Len(x) |-> IsZero(x[i])]
        inv == [i \in 1..Len(x) |-> Recip(x[i])]
    IN  Dense([i \in 1..Len(x) |-> IF is_zero[i] THEN Zero ELSE inv[i]])

\* --------------------------------------------------------- cov_type strings
\* A tag is a sequence of characters; str.lower() maps A-Z to a-z.
UpperLetters == <<"A","B","C","D","E","F","G","H","I","J","K","L","M",
                  "N","O","P","Q","R","S","T","U","V","W","X","Y","Z">>
LowerLetters == <<"a","b","c","d","e","f","g","h","i","j","k","l","m",
                  "n","o","p","q","r","s","t","u","v","w","x","y","z">>
LowerChar(ch) ==
    IF \E i \in 1..26 : UpperLetters[i] = ch
    THEN LowerLetters[CHOOSE i \in 1..26 : UpperLetters[i] = ch]
    ELSE ch
lower(str) == Dense([i \in 1..Len(str) |-> LowerChar(str[i])])

multinomial == <<"m","u","l","t","i","n","o","m","i","a","l">>
poisson == <<"p","o","i","s","s","o","n">>

\* ------------------------------------------------------------------- state
VARIABLES
    \* construction arguments (objects owned by the caller)
    data, data_err, efficiencies, efficiencies_err,
    response_shape, response, response_err, pec_err_strided, cov_type,
    \* "new": not constructed yet, "constructed", "failed": __init__ raised
    pc,
    \* Mixer fields
    cbins, ebins, cEff_inv, Mij,
    \* CovarianceMatrix fields
    pec_cov_type, NCmc, nobs, dcdn, dcdP, counter,
    \* the caller's view of the last call: its name, the exception it raised
    \* ("none" if it returned), the value it returned, and the prior passed
    \* to it if it was smear (<<>> otherwise)
    lastOp, lastErr, lastRet, lastArg,
    \* the posterior the driver holds from the last successful smear
    posterior,
    \* number of smear calls that returned on the current Mixer
    nSmearOk,
    \* the values the caller's arrays held when the caller created them
    given

inputs == <<data, data_err, efficiencies, efficiencies_err,
            response_shape, response, response_err, pec_err_strided, cov_type>>
mixerFields == <<cbins, ebins, cEff_inv, Mij>>
covFields == <<pec_cov_type, NCmc, nobs, dcdn, dcdP, counter>>
callView == <<lastOp, lastErr, lastRet, lastArg>>
vars == <<inputs, pc, mixerFields, covFields, callView, posterior, nSmearOk, given>>

\* ------------------------------------------------- Mixer.smear, lines 80-89
\* f_norm = self.pec @ n_c
f_norm_of(pec, n_c) == MatVec(pec, n_c)

\* MixingMatrix without the normalisation by f_norm
MixingMatrix_nonorm(pec, eff_inv, n_c) ==
    ColScale(pec, BMul(n_c, eff_inv))

\* MixingMatrix dividing by f_norm directly
MixingMatrix_rawf(pec, eff_inv, n_c) ==
    LET f_inv == safe_inverse_nomask(f_norm_of(pec, n_c))
        n_c_eff == BMul(n_c, eff_inv)
    IN  RowScale(ColScale(pec, n_c_eff), f_inv)

\* MixingMatrix without the prior in the numerator
MixingMatrix_noprior(pec, eff_inv, n_c) ==
    LET f_inv == safe_inverse(f_norm_of(pec, n_c))
    IN  RowScale(ColScale(pec, BMul(ZeroVec(Len(n_c)), eff_inv)), f_inv)

\* Mij = self.pec * (n_c * self.cEff_inv) * safe_inverse(f_norm).reshape(-1, 1)
MixingMatrix(pec, eff_inv, n_c) ==
    LET f_inv == safe_inverse(f_norm_of(pec, n_c))
        n_c_eff == BMul(n_c, eff_inv)
    IN  RowScale(ColScale(pec, n_c_eff), f_inv)

\* n_c_update = self.NEobs @ Mij
n_c_update_of(NEobs, M) == VecMat(NEobs, M)

\* ------------------------------------- CovarianceMatrix._initialize_dcdP
\* torch.empty leaves the buffer unspecified; Unset marks an element that no
\* assignment has written (it is absorbing under + and *).
Unset == NaN

\* initialize_dcdP with the column blocks laid out ebins apart in both loops
initialize_dcdP_stride(NEobs, eff_inv, nc, ne, M, f_norm, n_c, n_c_prev) ==
    LET NE_F_R == VecMul(NEobs, safe_inverse(f_norm))
        writers(col) == {w \in (1..ne) \X (1..nc) : (w[1] - 1) * ne + w[2] = col}
        last(col) == CHOOSE w \in writers(col) :
                        \A x \in writers(col) : x[1] <= w[1]
        first == Dense([ti \in 1..nc |-> [col \in 1..(nc * ne) |->
                    IF writers(col) = {} THEN Unset
                    ELSE RMul(RMul(RNeg(NE_F_R[last(col)[1]]), M[last(col)[1]][ti]),
                              n_c_prev[last(col)[2]])]])
        A2(ti, ej) == RMul(RSub(RMul(n_c_prev[ti], NE_F_R[ej]), n_c[ti]), At(eff_inv, ti))
        diagEj(ti, col) == {ej \in 1..ne : (ej - 1) * ne + ti = col}
    IN  Dense([ti \in 1..nc |-> [col \in 1..(nc * ne) |->
            IF diagEj(ti, col) = {} THEN first[ti][col]
            ELSE RAdd(first[ti][col], A2(ti, CHOOSE ej \in diagEj(ti, col) : TRUE))]])

initialize_dcdP(NEobs, eff_inv, nc, ne, M, f_norm, n_c, n_c_prev) ==
    LET NE_F_R == VecMul(NEobs, safe_inverse(f_norm))
        \* first loop nest: dcdP[ti, ej * cbins + tk] = A[ti, tk]
        writers(col) == {w \in (1..ne) \X (1..nc) : (w[1] - 1) * nc + w[2] = col}
        last(col) == CHOOSE w \in writers(col) :
                        \A x \in writers(col) : x[1] <= w[1]
        first == Dense([ti \in 1..nc |-> [col \in 1..(nc * ne) |->
                    IF writers(col) = {} THEN Unset
                    ELSE RMul(RMul(RNeg(NE_F_R[last(col)[1]]), M[last(col)[1]][ti]),
                              n_c_prev[last(col)[2]])]])
        \* second loop: dcdP[ti, ej * cbins + ti] += A[ti, ej]
        A2(ti, ej) == RMul(RSub(RMul(n_c_prev[ti], NE_F_R[ej]), n_c[ti]), At(eff_inv, ti))
        diagEj(ti, col) == {ej \in 1..ne : (ej - 1) * nc + ti = col}
    IN  Dense([ti \in 1..nc |-> [col \in 1..(nc * ne) |->
            IF diagEj(ti, col) = {} THEN first[ti][col]
            ELSE RAdd(first[ti][col], A2(ti, CHOOSE ej \in diagEj(ti, col) : TRUE))]])

\* ---------------------------- CovarianceMatrix._adye_propagation_corrections
\* adye_propagation_corrections without the term dcdn_prev * nc_r
adye_propagation_corrections_noM1(NEobs, cEff, dcdn_prev, dcdP_prev, dcdP0, M, n_c, n_c_prev) ==
    LET n_c_prev_inv == safe_inverse(n_c_prev)
        nc_r == VecMul(n_c, n_c_prev_inv)
        e_r == BMul(cEff, n_c_prev_inv)
        M3 == MatMul(ColScale(Transpose(MatNeg(ColScale(M, e_r))), NEobs), dcdn_prev)
        dn == MatAdd(M, MatMul(M, M3))
        C == MatMul(ColScale(Transpose(M), NEobs), ColScale(M, e_r))
        dP == MatAdd(dcdP0, MatSub(RowScale(dcdP_prev, nc_r), MatMul(C, dcdP_prev)))
    IN  <<dn, dP>>

\* adye_propagation_corrections without the term C @ dcdP_prev
adye_propagation_corrections_noUpd(NEobs, cEff, dcdn_prev, dcdP_prev, dcdP0, M, n_c, n_c_prev) ==
    LET n_c_prev_inv == safe_inverse(n_c_prev)
        nc_r == VecMul(n_c, n_c_prev_inv)
        e_r == BMul(cEff, n_c_prev_inv)
        M1 == ColScale(dcdn_prev, nc_r)
        M3 == MatMul(ColScale(Transpose(MatNeg(ColScale(M, e_r))), NEobs), dcdn_prev)
        dn == MatAdd(MatAdd(M, MatMul(M, M3)), M1)
        dP == MatAdd(dcdP0, RowScale(dcdP_prev, nc_r))
    IN  <<dn, dP>>

\* adye_propagation_corrections dividing by n_c_prev directly
adye_propagation_corrections_rawdiv(NEobs, cEff, dcdn_prev, dcdP_prev, dcdP0, M, n_c, n_c_prev) ==
    LET n_c_prev_inv == safe_inverse_nomask(n_c_prev)
        nc_r == VecMul(n_c, n_c_prev_inv)
        e_r == BMul(cEff, n_c_prev_inv)
        M1 == ColScale(dcdn_prev, nc_r)
        M3 == MatMul(ColScale(Transpose(MatNeg(ColScale(M, e_r))), NEobs), dcdn_prev)
        dn == MatAdd(MatAdd(M, MatMul(M, M3)), M1)
        C == MatMul(ColScale(Transpose(M), NEobs), ColScale(M, e_r))
        dP == MatAdd(dcdP0, MatSub(RowScale(dcdP_prev, nc_r), MatMul(C, dcdP_prev)))
    IN  <<dn, dP>>

\* returns <<dcdn, dcdP>>
adye_propagation_corrections(NEobs, cEff, dcdn_prev, dcdP_prev, dcdP0, M, n_c, n_c_prev) ==
    LET n_c_prev_inv == safe_inverse(n_c_prev)
        nc_r == VecMul(n_c, n_c_prev_inv)
        e_r == BMul(cEff, n_c_prev_inv)
        M1 == ColScale(dcdn_prev, nc_r)
        M2a == MatNeg(ColScale(M, e_r))
        M2 == ColScale(Transpose(M2a), NEobs)
        M3 == MatMul(M2, dcdn_prev)
        dn == MatAdd(MatAdd(M, MatMul(M, M3)), M1)
        Att == ColScale(Transpose(M), NEobs)
        B == ColScale(M, e_r)
        C == MatMul(Att, B)
        dcdP_Upd == MatMul(C, dcdP_prev)
        dP == MatAdd(dcdP0, MatSub(RowScale(dcdP_prev, nc_r), dcdP_Upd))
    IN  <<dn, dP>>

\* set_current_state without the increment of line 148
set_current_state_noinc(NEobs, cEff, eff_inv, nc, ne, dn_prev, dP_prev, cnt, M, f_norm, n_c, n_c_prev) ==
    LET dP0 == initialize_dcdP(NEobs, eff_inv, nc, ne, M, f_norm, n_c, n_c_prev)
        adye == adye_propagation_corrections(NEobs, cEff, dn_prev, dP_prev, dP0, M, n_c, n_c_prev)
    IN  IF cnt > 0 THEN <<adye[1], adye[2], cnt>>
        ELSE <<M, dP0, cnt>>

\* ------------------------------------ CovarianceMatrix.set_current_state
\* returns the new <<dcdn, dcdP, counter>>
set_current_state(NEobs, cEff, eff_inv, nc, ne, dn_prev, dP_prev, cnt, M, f_norm, n_c, n_c_prev) ==
    LET dP0 == initialize_dcdP(NEobs, eff_inv, nc, ne, M, f_norm, n_c, n_c_prev)
        adye == adye_propagation_corrections(NEobs, cEff, dn_prev, dP_prev, dP0, M, n_c, n_c_prev)
    IN  IF cnt > 0 THEN <<adye[1], adye[2], cnt + 1>>
        ELSE <<M, dP0, cnt + 1>>

\* ------------------------------------------------------ covariance pieces
\* getVcd: diagonal matrix of NEobs_err squared
getVcd_of(NEobs_err) == Diag(VecMul(NEobs_err, NEobs_err))

\* poisson_covariance: diagonal = pec_err.to_dense().ravel(); diagonal *= diagonal
\* the squared diagonal, which is also what the buffer holds afterwards when
\* to_dense().ravel() is a view of pec_err
poisson_diagonal(pec_err) == LET d == Ravel(pec_err) IN VecMul(d, d)
poisson_covariance(pec_err) == Diag(poisson_diagonal(pec_err))
\* pec_err after poisson_covariance ran: to_dense() of a strided tensor is the
\* tensor itself and ravel() of a contiguous tensor is a view, so the in-place
\* product writes through; a sparse tensor is densified into a fresh copy
pec_err_after(pec_err, strided) ==
    IF strided
    THEN Unravel(poisson_diagonal(pec_err), Rows(pec_err), Cols(pec_err))
    ELSE pec_err

\* ------------------------------------------------------------ input values
IntVec(s) == Dense([i \in 1..Len(s) |-> <<s[i], 1>>])
Half == Q(1, 2)

\* well-shaped inputs: response is ebins x cbins, data and data_err have ebins
\* entries, efficiencies and efficiencies_err have cbins entries
Scenario ==
    [data |-> IntVec(<<90, 110>>), data_err |-> IntVec(<<1, 2>>),
     efficiencies |-> IntVec(<<1, 1>>), efficiencies_err |-> <<Half, Half>>,
     response_shape |-> <<2, 2>>,
     response |-> <<<<Q(9, 10), Q(1, 10)>>, <<Q(1, 10), Q(9, 10)>>>>,
     response_err |-> <<<<Half, Zero>>, <<One, Q(2, 1)>>>>]
Identity ==
    [data |-> IntVec(<<1, 1>>), data_err |-> IntVec(<<1, 1>>),
     efficiencies |-> IntVec(<<1, 1>>), efficiencies_err |-> IntVec(<<1, 0>>),
     response_shape |-> <<2, 2>>,
     response |-> <<<<One, Zero>>, <<Zero, One>>>>,
     response_err |-> <<<<Half, Half>>, <<Half, Half>>>>]
Lossy ==
    [data |-> IntVec(<<2, 1>>), data_err |-> IntVec(<<1, 2>>),
     efficiencies |-> <<Q(3, 4), Q(3, 4)>>, efficiencies_err |-> <<Half, Half>>,
     response_shape |-> <<2, 2>>,
     response |-> <<<<Half, Q(1, 4)>>, <<Q(1, 4), Half>>>>,
     response_err |-> <<<<Half, One>>, <<Q(2, 1), Zero>>>>]
DeadBin ==
    [data |-> IntVec(<<1, 1>>), data_err |-> IntVec(<<1, 0>>),
     efficiencies |-> <<Half, Zero>>, efficiencies_err |-> <<Half, Zero>>,
     response_shape |-> <<2, 2>>,
     response |-> <<<<Half, Zero>>, <<Zero, Zero>>>>,
     response_err |-> <<<<One, Zero>>, <<Zero, Q(2, 1)>>>>]
Wide ==
    [data |-> IntVec(<<3>>), data_err |-> IntVec(<<2>>),
     efficiencies |-> IntVec(<<1, 1>>), efficiencies_err |-> <<Half, One>>,
     response_shape |-> <<1, 2>>,
     response |-> <<<<One, One>>>>,
     response_err |-> <<<<Half, Q(2, 1)>>>>]
Tall ==
    [data |-> IntVec(<<1, 2>>), data_err |-> IntVec(<<1, 1>>),
     efficiencies |-> IntVec(<<1>>), efficiencies_err |-> <<Half>>,
     response_shape |-> <<2, 1>>,
     response |-> <<<<Half>>, <<Half>>>>,
     response_err |-> <<<<Q(2, 1)>>, <<Half>>>>]

WellShapedInputs == {Scenario, Identity, Lossy, DeadBin, Wide, Tall}

\* mis-shaped variants of a 2 x 2 input.  efficiencies longer than one entry
\* are only paired with a two-column response, so a prior never broadcasts up
\* to a wider array.
MisShaped(b) ==
    {[b EXCEPT !.data = IntVec(<<2>>)],
     [b EXCEPT !.data = IntVec(<<2, 1, 1>>)],
     [b EXCEPT !.response_shape = <<>>, !.response = <<>>],
     [b EXCEPT !.response_shape = <<2>>, !.response = <<>>],
     [b EXCEPT !.response_shape = <<3>>, !.response = <<>>],
     [b EXCEPT !.response_shape = <<2, 2, 2>>, !.response = <<>>],
     [b EXCEPT !.response_shape = <<3, 2, 2>>, !.response = <<>>],
     [b EXCEPT !.efficiencies = <<Q(3, 4)>>, !.efficiencies_err = <<Half>>],
     [b EXCEPT !.efficiencies = <<Q(3, 4), One, One>>,
               !.efficiencies_err = <<Half, Half, Half>>],
     [b EXCEPT !.efficiencies_err = <<Half, Half, Half>>],
     [b EXCEPT !.efficiencies_err = <<Half>>],
     [b EXCEPT !.data_err = IntVec(<<1>>)],
     [b EXCEPT !.data_err = IntVec(<<1, 2, 1>>)],
     [b EXCEPT !.response_err = <<<<Half, One>>>>],
     [b EXCEPT !.response_err = <<<<Half, One, Q(2, 1), Zero>>>>],
     [b EXCEPT !.response_err = <<<<Half, One>>, <<One, One>>, <<One, One>>>>]}

Tags ==
    {poisson, multinomial,
     <<"P","o","i","s","s","o","n">>, <<"P","O","I","S","S","O","N">>,
     <<"M","u","l","t","i","n","o","m","i","a","l">>,
     <<"M","U","L","T","I","N","O","M","I","A","L">>,
     <<"g","a","u","s","s","i","a","n">>, <<"p","o","i","s","o","n">>,
     <<"p","o","i","s","s","o","n"," ">>, <<>>}

WithTag(b, tag, strided) ==
    [data |-> b.data, data_err |-> b.data_err,
     efficiencies |-> b.efficiencies, efficiencies_err |-> b.efficiencies_err,
     response_shape |-> b.response_shape, response |-> b.response,
     response_err |-> b.response_err,
     pec_err_strided |-> strided, cov_type |-> tag]

gaussian == <<"g","a","u","s","s","i","a","n">>

\* every well-shaped input in poisson mode with a strided (dense, contiguous)
\* and with a sparse response_err, and in multinomial mode; the mis-shaped
\* variants with a valid and an invalid tag; every tag on one input
Catalogue ==
    {WithTag(b, poisson, s) : b \in WellShapedInputs, s \in BOOLEAN}
    \cup {WithTag(b, multinomial, FALSE) : b \in WellShapedInputs}
    \cup {WithTag(b, t, TRUE) : b \in MisShaped(Lossy), t \in {poisson, gaussian}}
    \cup {WithTag(Tall, t, FALSE) : t \in Tags}

Priors ==
    {IntVec(<<1>>), IntVec(<<0>>), IntVec(<<1, 0>>), IntVec(<<100, 100>>),
     IntVec(<<1, 1, 1>>)}

NoRet == [kind |-> "none", val |-> <<>>]

Init ==
    /\ \E c \in Catalogue :
        /\ data = c.data
        /\ data_err = c.data_err
        /\ efficiencies = c.efficiencies
        /\ efficiencies_err = c.efficiencies_err
        /\ response_shape = c.response_shape
        /\ response = c.response
        /\ response_err = c.response_err
        /\ pec_err_strided = c.pec_err_strided
        /\ cov_type = c.cov_type
        /\ given = c
    /\ pc = "new"
    /\ cbins = 0 /\ ebins = 0 /\ cEff_inv = <<>> /\ Mij = <<>>
    /\ pec_cov_type = <<>> /\ NCmc = <<>> /\ nobs = Zero
    /\ dcdn = <<>> /\ dcdP = <<>> /\ counter = 0
    /\ lastOp = "none" /\ lastErr = "none" /\ lastRet = NoRet /\ lastArg = <<>>
    /\ posterior = <<>>
    /\ nSmearOk = 0

\* ------------------------------------------------------------ error kinds
\* the error kind each raise site stands for: the ValueErrors of lines 21, 24
\* and 78 are shape errors, the one of line 110 rejects the cov_type, line
\* 233 raises NotImplementedError; anything else is an exception that the
\* code does not raise itself
Kind(err) ==
    IF err = "none" THEN "none"
    ELSE IF err \in {"ValueError:effect_bins", "ValueError:ndim", "ValueError:cause_bins"}
         THEN "ShapeMismatch"
    ELSE IF err = "ValueError:cov_type" THEN "InvalidConfig"
    ELSE IF err = "NotImplementedError" THEN "NotImplemented"
    ELSE "Unclassified"

\* --------------------------------------------------------- Mixer.__init__
Call(op, arg, err, ret) ==
    lastOp' = op /\ lastArg' = arg /\ lastErr' = err /\ lastRet' = ret

\* MixerInitError with the effect-bin test made against the column count
MixerInitError_cols ==
    IF Len(response_shape) = 0 THEN "IndexError"
    ELSE IF Len(response_shape) >= 2 /\ Len(data) # response_shape[2]
         THEN "ValueError:effect_bins"
    ELSE IF Len(response_shape) # 2 THEN "ValueError:ndim"
    ELSE "none"

\* the exception raised by Mixer.__init__ before it builds the
\* CovarianceMatrix ("none" if there is none).  response.shape[0] is read on
\* line 17, before the ndim test of line 23.
MixerInitError ==
    IF Len(response_shape) = 0 THEN "IndexError"
    ELSE IF Len(data) # response_shape[1] THEN "ValueError:effect_bins"
    ELSE IF Len(response_shape) # 2 THEN "ValueError:ndim"
    ELSE "none"

\* CovInitError with the tag compared as given, not lower-cased
CovInitError_cased ==
    IF cov_type \notin {multinomial, poisson} THEN "ValueError:cov_type"
    ELSE IF ~BroadcastOK(Len(efficiencies), Len(efficiencies_err))
         THEN "RuntimeError:broadcast"
    ELSE "none"

\* the exception raised by CovarianceMatrix.__init__: the cov_type test of
\* line 109, then the elementwise product of line 117
CovInitError ==
    IF lower(cov_type) \notin {multinomial, poisson} THEN "ValueError:cov_type"
    ELSE IF ~BroadcastOK(Len(efficiencies), Len(efficiencies_err))
         THEN "RuntimeError:broadcast"
    ELSE "none"

\* Mixer(...) on the caller's arrays; the caller may build a further Mixer
\* from the same arrays once it has one, and starts over with it
Construct ==
    /\ pc \in {"new", "constructed"}
    /\ LET err == IF MixerInitError # "none" THEN MixerInitError ELSE CovInitError
       IN  IF err # "none"
           THEN /\ pc' = "failed"
                /\ Call("Mixer", <<>>, err, NoRet)
                /\ UNCHANGED <<mixerFields, covFields, posterior, nSmearOk>>
           ELSE /\ pc' = "constructed"
                /\ Call("Mixer", <<>>, "none", NoRet)
                /\ cbins' = response_shape[2]
                /\ ebins' = response_shape[1]
                /\ cEff_inv' = safe_inverse(efficiencies)
                /\ Mij' = ZeroMat(response_shape[1], response_shape[2])
                /\ pec_cov_type' = lower(cov_type)
                /\ NCmc' = LET r == BMul(efficiencies, safe_inverse(efficiencies_err))
                           IN  VecMul(r, r)
                /\ nobs' = SumSeq(data)
                /\ dcdn' = ZeroMat(response_shape[1], response_shape[2])
                /\ dcdP' = ZeroMat(response_shape[2], response_shape[2] * response_shape[1])
                /\ counter' = 0
                /\ posterior' = <<>>
                /\ nSmearOk' = 0
    /\ UNCHANGED <<inputs, given>>

\* ------------------------------------------------------------ Mixer.smear
\* SmearError with the length test made against the effect-bin count
SmearError_ebins(n_c) ==
    IF Len(n_c) # ebins THEN "ValueError:cause_bins"
    ELSE IF Len(n_c) # Cols(response) THEN "RuntimeError:shape"
    ELSE IF ~BroadcastOK(Len(n_c), Len(cEff_inv)) THEN "RuntimeError:broadcast"
    ELSE "none"

\* the exception raised by smear(n_c): the length test of line 74, then the
\* product self.pec @ n_c of line 81, then the elementwise product
\* n_c * self.cEff_inv of line 83
SmearError(n_c) ==
    IF Len(n_c) # cbins THEN "ValueError:cause_bins"
    ELSE IF Len(n_c) # Cols(response) THEN "RuntimeError:shape"
    ELSE IF ~BroadcastOK(Len(n_c), Len(cEff_inv)) THEN "RuntimeError:broadcast"
    ELSE "none"

VecRet(v) == [kind |-> "vector", val |-> <<v>>]
MatRet(m) == [kind |-> "matrix", val |-> m]
\* torch.sqrt of a vector, kept as the vector of radicands
SqrtRet(v) == [kind |-> "sqrt", val |-> <<v>>]

\* the numbers held are small enough for the model to go on
VecFits(v, bound) == \A i \in 1..Len(v) : Mag(v[i]) <= bound
MatFits(m, bound) == \A i \in 1..Rows(m) : VecFits(m[i], bound)
JacobiansFit == MatFits(dcdn, MaxMag) /\ MatFits(dcdP, MaxMag)
PecErrFits == MatFits(response_err, MaxErrMag)

Smear(n_c) ==
    /\ pc = "constructed"
    /\ counter < MaxIter
    /\ VecFits(n_c, MaxMag) /\ JacobiansFit
    /\ IF SmearError(n_c) # "none"
       THEN /\ Call("smear", n_c, SmearError(n_c), NoRet)
            /\ UNCHANGED <<Mij, covFields, posterior, nSmearOk>>
       ELSE LET f_norm == f_norm_of(response, n_c)
                M == MixingMatrix(response, cEff_inv, n_c)
                n_c_update == n_c_update_of(data, M)
                st == set_current_state(data, efficiencies, cEff_inv, cbins, ebins,
                                        dcdn, dcdP, counter, M, f_norm, n_c_update, n_c)
            IN  /\ Mij' = M
                /\ dcdn' = st[1]
                /\ dcdP' = st[2]
                /\ counter' = st[3]
                /\ Call("smear", n_c, "none", VecRet(n_c_update))
                /\ posterior' = n_c_update
                /\ nSmearOk' = nSmearOk + 1
                /\ UNCHANGED <<pec_cov_type, NCmc, nobs>>
    /\ UNCHANGED <<inputs, given, pc, cbins, ebins, cEff_inv>>

\* the driver passes a prior of its own or feeds the last posterior back
SmearAny ==
    \E n_c \in Priors \cup (IF posterior = <<>> THEN {} ELSE {posterior}) : Smear(n_c)

\* ------------------------------------------------ covariance accessors
\* getVc0: dcdn.T @ Vcd @ dcdn; the product is defined only when Vcd, which
\* has one row per entry of NEobs_err, has ebins rows
getVc0Error == IF Len(data_err) # ebins THEN "RuntimeError:shape" ELSE "none"
getVc0Value == MatMul(MatMul(Transpose(dcdn), getVcd_of(data_err)), dcdn)

\* getVcPPError with the multinomial branch falling through to a result
getVcPPError_fallback ==
    IF pec_cov_type \in {poisson, multinomial} THEN "none"
    ELSE "UnboundLocalError"

\* getVcPP: poisson_covariance in poisson mode, NotImplementedError in
\* multinomial mode; with any other mode neither branch binds CovPP
getVcPPError ==
    IF pec_cov_type = poisson THEN "none"
    ELSE IF pec_cov_type = multinomial THEN "NotImplementedError"
    ELSE "UnboundLocalError"
\* does this call of getVcPP run poisson_covariance
RunsPoisson == pec_cov_type = poisson

\* getVc1: dcdP @ CovPP @ dcdP.T; CovPP has one row per element of pec_err
getVc1Error ==
    IF getVcPPError # "none" THEN getVcPPError
    ELSE IF Numel(response_err) # cbins * ebins THEN "RuntimeError:shape"
    ELSE "none"
getVc1Value == MatMul(MatMul(dcdP, poisson_covariance(response_err)), Transpose(dcdP))

\* get_cov: getVc0 first, then getVc1
get_covError == IF getVc0Error # "none" THEN getVc0Error ELSE getVc1Error
get_covValue == MatAdd(getVc0Value, getVc1Value)

\* effect of one getVcPP call on the shared state
TouchPecErr ==
    response_err' = IF RunsPoisson
                    THEN pec_err_after(response_err, pec_err_strided)
                    ELSE response_err

Frame == UNCHANGED <<data, data_err, efficiencies, efficiencies_err,
                     response_shape, response, pec_err_strided, cov_type,
                     pc, mixerFields, covFields, posterior, nSmearOk, given>>

getVcd ==
    /\ pc = "constructed"
    /\ Call("getVcd", <<>>, "none", MatRet(getVcd_of(data_err)))
    /\ Frame /\ UNCHANGED response_err

getVc0 ==
    /\ pc = "constructed"
    /\ JacobiansFit /\ PecErrFits
    /\ Call("getVc0", <<>>, getVc0Error,
            IF getVc0Error = "none" THEN MatRet(getVc0Value) ELSE NoRet)
    /\ Frame /\ UNCHANGED response_err

getVcPP ==
    /\ pc = "constructed"
    /\ JacobiansFit /\ PecErrFits
    /\ TouchPecErr
    /\ Call("getVcPP", <<>>, getVcPPError,
            IF getVcPPError = "none" THEN MatRet(poisson_covariance(response_err))
            ELSE NoRet)
    /\ Frame

getVc1 ==
    /\ pc = "constructed"
    /\ JacobiansFit /\ PecErrFits
    /\ TouchPecErr
    /\ Call("getVc1", <<>>, getVc1Error,
            IF getVc1Error = "none" THEN MatRet(getVc1Value) ELSE NoRet)
    /\ Frame

\* CovarianceMatrix.get_cov and Mixer.get_cov, which returns it unchanged
get_cov ==
    /\ pc = "constructed"
    /\ JacobiansFit /\ PecErrFits
    /\ IF getVc0Error # "none"
       THEN UNCHANGED response_err
       ELSE TouchPecErr
    /\ Call("get_cov", <<>>, get_covError,
            IF get_covError = "none" THEN MatRet(get_covValue) ELSE NoRet)
    /\ Frame

\* Mixer.get_stat_err: sqrt of the diagonal of getVc0()
get_stat_err ==
    /\ pc = "constructed"
    /\ JacobiansFit /\ PecErrFits
    /\ Call("get_stat_err", <<>>, getVc0Error,
            IF getVc0Error = "none" THEN SqrtRet(Diagonal(getVc0Value)) ELSE NoRet)
    /\ Frame /\ UNCHANGED response_err

\* Mixer.get_MC_err: sqrt of the diagonal of getVc1()
get_MC_err ==
    /\ pc = "constructed"
    /\ JacobiansFit /\ PecErrFits
    /\ TouchPecErr
    /\ Call("get_MC_err", <<>>, getVc1Error,
            IF getVc1Error = "none" THEN SqrtRet(Diagonal(getVc1Value)) ELSE NoRet)
    /\ Frame

Next ==
    \/ Construct
    \/ SmearAny
    \/ getVcd
    \/ getVc0
    \/ getVcPP
    \/ getVc1
    \/ get_cov
    \/ get_stat_err
    \/ get_MC_err

Spec == Init /\ [][Next]_vars

\* =================================================================== claims
\* vocabulary of the claims, stated without the operators of the model

\* the two conditions Mixer.__init__ is documented to reject
ShapeBad == Len(response_shape) # 2 \/ Len(data) # response_shape[1]

\* every construction array has the shape the data model gives it
WellShaped ==
    /\ Len(response_shape) = 2
    /\ Len(data) = response_shape[1]
    /\ Len(data_err) = response_shape[1]
    /\ Len(efficiencies) = response_shape[2]
    /\ Len(efficiencies_err) = response_shape[2]
    /\ Rows(response_err) = response_shape[1]
    /\ Cols(response_err) = response_shape[2]

\* two characters that are the same letter in either case
SameLetter(x, y) ==
    x = y \/ \E i \in 1..26 : {x, y} = {UpperLetters[i], LowerLetters[i]}
SameWord(a, b) == Len(a) = Len(b) /\ \A i \in 1..Len(a) : SameLetter(a[i], b[i])
TagValid == SameWord(cov_type, poisson) \/ SameWord(cov_type, multinomial)

\* no Mixer and no CovarianceMatrix exist
NoObjects ==
    /\ cbins = 0 /\ ebins = 0 /\ cEff_inv = <<>> /\ Mij = <<>>
    /\ pec_cov_type = <<>> /\ NCmc = <<>> /\ dcdn = <<>> /\ dcdP = <<>> /\ counter = 0

\* ---------------------------------------------------------------------- C1
\* C1: a smear call whose prior has a length other than the number of cause
\* bins fails with a ShapeMismatch error, returns nothing, and leaves the
\* mixing matrix, the Jacobians dn and dP and the iteration counter as they
\* were (the driver's posterior too).
C1_SmearLengthRejected ==
    [][(lastOp' = "smear" /\ Len(lastArg') # cbins)
        => /\ Kind(lastErr') = "ShapeMismatch"
           /\ lastRet' = NoRet
           /\ Mij' = Mij /\ dcdn' = dcdn /\ dcdP' = dcdP /\ counter' = counter
           /\ posterior' = posterior]_vars

\* a wrong-length prior was rejected by a Mixer that has already iterated
C1_Witness ==
    /\ lastOp = "smear" /\ Len(lastArg) # cbins
    /\ lastErr = "ValueError:cause_bins"
    /\ counter = 1 /\ dcdn # ZeroMat(ebins, cbins)

C3_AsStated == pc = "constructed" => WellShaped

\* ---------------------------------------------------------------------- C4
AllZero(m, r, c) ==
    /\ Len(m) = r
    /\ \A i \in 1..r : Len(m[i]) = c /\ \A j \in 1..c : m[i][j] = <<0, 1>>

\* C4: the iteration counter of a Mixer equals the number of smear calls
\* that returned on it: it is 0 at construction, every call that returns from
\* smear raises it by exactly one, no other call (a failing smear, an
\* accessor) changes it, and while it is 0 the Jacobians dn and dP are
\* all-zero.
C4_CounterCountsSmears ==
    /\ [](counter = nSmearOk)
    /\ [][IF lastOp' = "smear" /\ lastErr' = "none"
          THEN counter' = counter + 1
          ELSE IF lastOp' = "Mixer" THEN counter' = 0
          ELSE counter' = counter]_vars
    /\ []((pc = "constructed" /\ counter = 0)
            => (AllZero(dcdn, ebins, cbins) /\ AllZero(dcdP, cbins, cbins * ebins)))

\* one smear returned, a later one failed, and the counter still reads 1
C4_Witness ==
    /\ counter = 1 /\ nSmearOk = 1
    /\ lastOp = "smear" /\ lastErr # "none"

\* ---------------------------------------------------------------------- C5
\* zero maps to zero, anything else to its reciprocal
SInv(x) == IF x[1] = 0 THEN <<0, 1>> ELSE Norm(<<x[2], x[1]>>)
\* predicted effect of the prior passed to the last smear call
PredictedEffect(e) == SumSeq([c \in 1..cbins |-> RMul(response[e][c], lastArg[c])])
\* the first-order term dP0[c, e * cbins + k] of the last smear call, whose
\* prior is lastArg and whose posterior is lastRet
FirstOrderDP(c, e, k) ==
    LET g == RMul(data[e], SInv(PredictedEffect(e)))
        n_new == lastRet.val[1]
        offDiag == RNeg(RMul(RMul(g, Mij[e][c]), lastArg[k]))
        onDiag == RMul(RSub(RMul(lastArg[c], g), n_new[c]), SInv(efficiencies[c]))
    IN  IF k = c THEN RAdd(offDiag, onDiag) ELSE offDiag

\* C5: after the first smear that returns on a fresh Mixer the stored dn is
\* the mixing matrix of that call and the stored dP is the first-order term
\* dP0, with no Adye correction; each of the cbins x (cbins * ebins) entries
\* of dP has been assigned.
C5_FirstSmearIsFirstOrder ==
    /\ (pc = "constructed" /\ counter = 1) => dcdn = Mij
    /\ (pc = "constructed" /\ WellShaped /\ counter = 1
        /\ lastOp = "smear" /\ lastErr = "none")
        => /\ Len(dcdP) = cbins
           /\ \A c \in 1..cbins :
                /\ Len(dcdP[c]) = cbins * ebins
                /\ \A col \in 1..(cbins * ebins) : dcdP[c][col][2] # 0
           /\ \A c \in 1..cbins, e \in 1..ebins, k \in 1..cbins :
                dcdP[c][(e - 1) * cbins + k] = FirstOrderDP(c, e, k)

\* the first smear returned on a Mixer with more effect bins than cause bins
\* and left a non-zero diagonal term
C5_Witness ==
    /\ pc = "constructed" /\ WellShaped /\ counter = 1
    /\ lastOp = "smear" /\ lastErr = "none"
    /\ ebins = 2 /\ cbins = 1
    /\ dcdP[1][2] # <<0, 1>>

\* ---------------------------------------------------------------------- C6
Reads == {"get_cov", "get_stat_err", "get_MC_err", "getVcd", "getVc0", "getVcPP", "getVc1"}

\* C6: in poisson mode every accessor call leaves M, dn, dP, the counter and
\* every construction input unchanged, and an accessor called again returns
\* what it returned before.
C6_AsStated ==
    [][(lastOp' \in Reads /\ pec_cov_type = poisson)
        => /\ UNCHANGED <<Mij, dcdn, dcdP, counter>>
           /\ UNCHANGED <<response, response_err, efficiencies, efficiencies_err,
                          data, data_err>>
           /\ (lastOp = lastOp' /\ lastErr = "none") => lastRet' = lastRet]_vars

\* ---------------------------------------------------------------------- C7
EffLengthsBroadcast ==
    \/ Len(efficiencies) = Len(efficiencies_err)
    \/ Len(efficiencies) = 1
    \/ Len(efficiencies_err) = 1

\* C7: when CovarianceMatrix.__init__ runs (the shape tests of Mixer.__init__
\* having passed) with a tag that is neither "poisson" nor "multinomial" in
\* any letter case, construction fails with InvalidConfig; every spelling of
\* the two tags is accepted; the stored mode of a constructed object is
\* exactly "poisson" or "multinomial", and getVcPP never meets another mode.
C7_TagValidated ==
    /\ (pc # "new" /\ ~ShapeBad /\ ~TagValid)
        => (pc = "failed" /\ NoObjects /\ Kind(lastErr) = "InvalidConfig")
    /\ (pc # "new" /\ ~ShapeBad /\ TagValid /\ EffLengthsBroadcast)
        => pc = "constructed"
    /\ pc = "constructed" => (TagValid /\ pec_cov_type \in {poisson, multinomial})
    /\ lastErr # "UnboundLocalError"

\* an upper-case spelling was accepted and stored in lower case
C7_Witness ==
    /\ pc = "constructed"
    /\ cov_type = <<"M","U","L","T","I","N","O","M","I","A","L">>
    /\ pec_cov_type = multinomial

\* ---------------------------------------------------------------------- C8
\* C8: with well-shaped inputs and the "multinomial" tag construction
\* succeeds and every smear with a prior of the right length returns and
\* advances the counter; NotImplemented is raised by a read of getVcPP, getVc1
\* or get_cov (get_MC_err reads getVc1) and by nothing else, whatever the
\* counter; the failed read leaves dn, dP, M and the counter unchanged.
C8_MultinomialFailsOnRead ==
    /\ []((pc # "new" /\ WellShaped /\ SameWord(cov_type, multinomial))
            => (pc = "constructed" /\ pec_cov_type = multinomial))
    /\ [][(pec_cov_type = multinomial /\ WellShaped
            /\ lastOp' = "smear" /\ Len(lastArg') = cbins)
          => (lastErr' = "none" /\ counter' = counter + 1)]_vars
    /\ [](lastErr = "NotImplementedError"
            => (pec_cov_type = multinomial
                /\ lastOp \in {"getVcPP", "getVc1", "get_cov", "get_MC_err"}))
    /\ []((pec_cov_type = multinomial /\ WellShaped
            /\ lastOp \in {"getVcPP", "getVc1", "get_cov", "get_MC_err"})
            => lastErr = "NotImplementedError")
    /\ [][lastErr' = "NotImplementedError"
          => UNCHANGED <<Mij, dcdn, dcdP, counter>>]_vars

\* get_cov failed with NotImplemented after two smears had returned
C8_Witness ==
    /\ pec_cov_type = multinomial /\ WellShaped
    /\ counter = 2 /\ dcdn # Mij
    /\ lastOp = "get_cov" /\ lastErr = "NotImplementedError"

\* ---------------------------------------------------------------------- C9
SmearReturned == pc = "constructed" /\ lastOp = "smear" /\ lastErr = "none"
ColSumsOne ==
    \A c \in 1..response_shape[2] :
        SumSeq([e \in 1..response_shape[1] |-> response[e][c]]) = <<1, 1>>
EffAllOne == \A c \in 1..Len(efficiencies) : efficiencies[c] = <<1, 1>>

\* C9 as stated: if every column of R sums to 1 and every efficiency is 1,
\* the posterior sums to the data total for every prior of the right length.
C9_AsStated ==
    (SmearReturned /\ WellShaped /\ ColSumsOne /\ EffAllOne)
        => SumSeq(lastRet.val[1]) = SumSeq(data)

\* C9 amended: if every column of R sums to 1 and every efficiency is 1,
\* the posterior sums to the data total for every prior of the right length
\* (priors with zero entries included) whose predicted effect f[e] is
\* non-zero in every effect bin that holds data.
C9_Conservation ==
    (SmearReturned /\ WellShaped /\ ColSumsOne /\ EffAllOne
     /\ \A e \in 1..ebins : PredictedEffect(e) = <<0, 1>> => data[e] = <<0, 1>>)
        => SumSeq(lastRet.val[1]) = SumSeq(data)

\* a prior with a zero entry was smeared by a 2 x 2 response and every
\* predicted effect was non-zero
C9_Witness ==
    /\ SmearReturned /\ WellShaped /\ ColSumsOne /\ EffAllOne
    /\ cbins = 2 /\ ebins = 2
    /\ lastArg[2] = <<0, 1>>
    /\ \A e \in 1..ebins : PredictedEffect(e) # <<0, 1>>
    /\ SumSeq(lastRet.val[1]) = SumSeq(data)

\* --------------------------------------------------------------------- C10
\* the first smear of the scenario: R = [[0.9, 0.1], [0.1, 0.9]], eff = [1, 1],
\* data = [90, 110], prior = [100, 100]
ScenarioCall ==
    /\ SmearReturned /\ counter = 1
    /\ response = <<<<<<9, 10>>, <<1, 10>>>>, <<<<1, 10>>, <<9, 10>>>>>>
    /\ efficiencies = <<<<1, 1>>, <<1, 1>>>>
    /\ data = <<<<90, 1>>, <<110, 1>>>>
    /\ lastArg = <<<<100, 1>>, <<100, 1>>>>

\* C10 as stated: the scenario's first smear returns [91, 109].
C10_AsStated == ScenarioCall => lastRet.val[1] = <<<<91, 1>>, <<109, 1>>>>

\* C10 amended: in the scenario f = [100, 100], M[e, c] =
\* R[e, c] * prior[c] * eff_inv[c] * (1 / f[e]) and the first smear returns
\* [92, 108].
C10_Scenario ==
    ScenarioCall =>
        /\ \A e \in 1..2 : PredictedEffect(e) = <<100, 1>>
        /\ \A e \in 1..2, c \in 1..2 :
            Mij[e][c] = RMul(RMul(response[e][c], lastArg[c]),
                             RMul(SInv(efficiencies[c]), <<1, 100>>))
        /\ lastRet.val[1] = <<<<92, 1>>, <<108, 1>>>>

C10_Witness == ScenarioCall /\ Mij = response

\* --------------------------------------------------------------------- C11
\* the squares of the entries of the response_err the caller created, row by
\* row, on the diagonal of a matrix
GivenErrCovariance ==
    LET r == given.response_err
        n == Len(r) * Len(r[1])
        sq(k) == LET x == r[((k - 1) \div Len(r[1])) + 1][((k - 1) % Len(r[1])) + 1]
                 IN  RMul(x, x)
    IN  [i \in 1..n |-> [j \in 1..n |-> IF i = j THEN sq(i) ELSE <<0, 1>>]]

\* C11: a call made on a freshly built Mixer gives what the same call gives
\* on the first Mixer built from the same arrays: a smear returns the
\* posterior, and stores the dn and dP, that follow from the arrays as the
\* caller created them, and getVcPP returns the covariance of the
\* response_err the caller created, whether or not an earlier Mixer was built
\* and read on the same arrays.
C11_AsStated ==
    [][(lastOp = "Mixer" /\ pc = "constructed" /\ lastErr' = "none")
        => /\ lastOp' = "smear" =>
                LET M == MixingMatrix(given.response,
                                      safe_inverse(given.efficiencies), lastArg')
                    n_new == n_c_update_of(given.data, M)
                IN  /\ lastRet' = VecRet(n_new)
                    /\ dcdn' = M
                    /\ dcdP' = initialize_dcdP(given.data,
                                   safe_inverse(given.efficiencies), cbins, ebins, M,
                                   f_norm_of(given.response, lastArg'), n_new, lastArg')
           /\ lastOp' = "getVcPP" => lastRet'.val = GivenErrCovariance]_vars

\* --------------------------------------------------------------------- C12
IsCauseSquare(m) == Len(m) = cbins /\ \A i \in 1..cbins : Len(m[i]) = cbins
IsSymmetric(m) == \A i \in 1..Len(m), j \in 1..Len(m) : m[i][j] = m[j][i]
DiagNonNegative(m) == \A i \in 1..Len(m) : m[i][i][1] >= 0 /\ m[i][i][2] > 0
\* entry k of the row-major flattening of a matrix
FlatEntry(r, k) == r[((k - 1) \div Len(r[1])) + 1][((k - 1) % Len(r[1])) + 1]
\* (dn^T * diag(derr^2) * dn)[i, j] for the stored dn
Vc0Entry(i, j) ==
    SumSeq([e \in 1..ebins |->
        RMul(RMul(dcdn[e][i], RMul(data_err[e], data_err[e])), dcdn[e][j])])
\* (dP * diag(Rerr^2 flattened) * dP^T)[i, j] for the stored dP and the
\* response uncertainties rerr
Vc1Entry(rerr, i, j) ==
    SumSeq([k \in 1..(cbins * ebins) |->
        RMul(RMul(dcdP[i][k], RMul(FlatEntry(rerr, k), FlatEntry(rerr, k))), dcdP[j][k])])
ValidPoisson ==
    pc = "constructed" /\ WellShaped /\ pec_cov_type = poisson /\ lastErr = "none"

\* the returned covariance matrices are symmetric cause-bins x cause-bins
\* matrices with non-negative diagonals, and getVc0 is dn^T * diag(derr^2) * dn
CovarianceShape ==
    (ValidPoisson /\ lastOp \in {"getVc0", "getVc1", "get_cov"})
        => /\ IsCauseSquare(lastRet.val)
           /\ IsSymmetric(lastRet.val)
           /\ DiagNonNegative(lastRet.val)
           /\ lastOp = "getVc0" =>
                \A i \in 1..cbins, j \in 1..cbins : lastRet.val[i][j] = Vc0Entry(i, j)

\* C12: in poisson mode, at every iteration count, getVc0() returns
\* dn^T * diag(derr^2) * dn, getVc1() returns dP * diag(Rerr^2 flattened) *
\* dP^T for the response uncertainties Rerr the Mixer was given, both are
\* symmetric cause-bins x cause-bins matrices with non-negative diagonals, and
\* get_cov() returns their elementwise sum.
C12_AsStated ==
    /\ CovarianceShape
    /\ (ValidPoisson /\ lastOp = "getVc1")
        => \A i \in 1..cbins, j \in 1..cbins :
            lastRet.val[i][j] = Vc1Entry(given.response_err, i, j)
    /\ (ValidPoisson /\ lastOp = "get_cov")
        => \A i \in 1..cbins, j \in 1..cbins :
            lastRet.val[i][j] = RAdd(Vc0Entry(i, j), Vc1Entry(given.response_err, i, j))

\* --------------------------------------------------------------------- C13
\* y is the array of the same length as x that holds 0 where x holds 0 and
\* the finite reciprocal 1 / x[i] elsewhere
InverseOf(x, y) ==
    /\ Len(y) = Len(x)
    /\ \A i \in 1..Len(x) :
        /\ y[i][2] # 0
        /\ x[i] = <<0, 1>> => y[i] = <<0, 1>>
        /\ x[i] # <<0, 1>> => y[i] = Norm(<<x[i][2], x[i][1]>>)
\* the one-dimensional arrays of real numbers the program holds
HeldArrays ==
    {data, data_err, efficiencies, efficiencies_err, lastArg, posterior}
    \cup {response[e] : e \in 1..Len(response)}
    \cup {response_err[e] : e \in 1..Len(response_err)}
    \cup {Mij[e] : e \in 1..Len(Mij)}
    \cup {dcdn[e] : e \in 1..Len(dcdn)}
    \cup {dcdP[c] : c \in 1..Len(dcdP)}

\* C13: for every array x of real numbers safe_inverse(x) has the length of
\* x, holds 0 wherever x holds 0 and 1 / x[i] elsewhere, holds no infinite and
\* no NaN entry, and x is left as it was (the efficiencies, of which the
\* constructor takes the safe inverse, are never changed).
C13_SafeInverse ==
    /\ [](\A x \in HeldArrays : InverseOf(x, safe_inverse(x)))
    /\ [](pc = "constructed" => InverseOf(efficiencies, cEff_inv))
    /\ [][efficiencies' = efficiencies /\ efficiencies_err' = efficiencies_err]_vars

\* the constructor took the safe inverse of efficiencies [1/2, 0] and a smear
\* has since taken that of a predicted effect with a zero entry
C13_Witness ==
    /\ pc = "constructed" /\ counter = 1
    /\ efficiencies = <<<<1, 2>>, <<0, 1>>>>
    /\ cEff_inv = <<<<2, 1>>, <<0, 1>>>>
    /\ lastOp = "smear" /\ lastErr = "none"
    /\ \E e \in 1..ebins : PredictedEffect(e) = <<0, 1>>

\* --------------------------------------------------------------------- C14
VecFinite(v) == \A i \in 1..Len(v) : v[i][2] # 0
MatFinite(m) == \A i \in 1..Len(m) : VecFinite(m[i])

\* C14: on a Mixer built from well-shaped arrays every smear with a prior of
\* the right length returns and raises the counter by one, whatever zeros
\* the prior, the efficiencies or the predicted effect hold, and the
\* posterior, M, dn and dP never hold an entry that is the result of a
\* division by zero.
C14_DegeneracyIsNoError ==
    /\ [][(pc = "constructed" /\ WellShaped
            /\ lastOp' = "smear" /\ Len(lastArg') = cbins)
          => (lastErr' = "none" /\ counter' = counter + 1
              /\ VecFinite(lastRet'.val[1]))]_vars
    /\ []((pc = "constructed" /\ WellShaped)
            => (MatFinite(Mij) /\ MatFinite(dcdn) /\ MatFinite(dcdP)
                /\ VecFinite(posterior)))

\* the second smear returned with a zero prior entry, a zero efficiency and
\* a zero predicted effect
C14_Witness ==
    /\ pc = "constructed" /\ WellShaped /\ counter = 2
    /\ lastOp = "smear" /\ lastErr = "none"
    /\ \E c \in 1..cbins : lastArg[c] = <<0, 1>>
    /\ \E c \in 1..cbins : efficiencies[c] = <<0, 1>>
    /\ \E e \in 1..ebins : PredictedEffect(e) = <<0, 1>>

\* --------------------------------------------------------------------- C15
\* r[c] = n_new[c] * safe_inverse(n_prev)[c], s[c] = eff[c] * safe_inverse(n_prev)[c]
RatioR(n_new, n_prev, c) == RMul(n_new[c], SInv(n_prev[c]))
RatioS(n_prev, c) == RMul(efficiencies[c], SInv(n_prev[c]))
\* entry [e, k] of M * [(-(M col-scaled by s)^T, effect entries scaled by d) *
\* dn_prev] + (dn_prev col-scaled by r)
AdyeDn(M, dn_prev, n_new, n_prev, e, k) ==
    LET inner(c) == SumSeq([x \in 1..ebins |->
                        RMul(RMul(RNeg(RMul(M[x][c], RatioS(n_prev, c))), data[x]),
                             dn_prev[x][k])])
    IN  RAdd(SumSeq([c \in 1..cbins |-> RMul(M[e][c], inner(c))]),
             RMul(dn_prev[e][k], RatioR(n_new, n_prev, k)))
\* a smear returns on a well-shaped Mixer that has iterated before
LaterSmear ==
    /\ pc = "constructed" /\ WellShaped /\ counter > 0
    /\ lastOp' = "smear" /\ lastErr' = "none"
ScenarioInputs ==
    /\ response = <<<<<<9, 10>>, <<1, 10>>>>, <<<<1, 10>>, <<9, 10>>>>>>
    /\ efficiencies = <<<<1, 1>>, <<1, 1>>>>
    /\ data = <<<<90, 1>>, <<110, 1>>>>

\* C15 as stated: a smear that returns with the counter above 0 stores
\* dn_new = M * [(-(M col-scaled by s)^T scaled by d) * dn_prev] + (dn_prev
\* col-scaled by r), dn_prev being the dn stored before the call, and on a
\* second call with prior = n_new the stored dn differs from M.
C15_AsStated ==
    [][LaterSmear =>
        /\ \A e \in 1..ebins, k \in 1..cbins :
            dcdn'[e][k] = AdyeDn(Mij', dcdn, lastRet'.val[1], lastArg', e, k)
        /\ (counter = 1 /\ lastArg' = posterior) => dcdn' # Mij']_vars

\* C15 amended: a smear that returns with the counter above 0 stores
\* dn_new = M + M * [(-(M col-scaled by s)^T scaled by d) * dn_prev] +
\* (dn_prev col-scaled by r), dn_prev being the dn stored before the call; in
\* the scenario R = [[0.9, 0.1], [0.1, 0.9]], eff = [1, 1], data = [90, 110],
\* prior = [100, 100] a second call with prior = n_new = [92, 108] stores a dn
\* that differs from M.
C15_AdyeDataJacobian ==
    [][LaterSmear =>
        /\ \A e \in 1..ebins, k \in 1..cbins :
            dcdn'[e][k] = RAdd(Mij'[e][k],
                               AdyeDn(Mij', dcdn, lastRet'.val[1], lastArg', e, k))
        /\ (ScenarioInputs /\ counter = 1 /\ posterior = <<<<92, 1>>, <<108, 1>>>>
            /\ lastArg' = posterior) => dcdn' # Mij']_vars

\* the scenario's second smear, fed the first posterior [92, 108], returned
C15_Witness ==
    /\ pc = "constructed" /\ ScenarioInputs /\ counter = 2
    /\ lastOp = "smear" /\ lastErr = "none"
    /\ lastArg = <<<<92, 1>>, <<108, 1>>>>
    /\ dcdn # Mij

\* --------------------------------------------------------------------- C16
\* entry [c, c2] of (M^T with effect entries scaled by d) * (M col-scaled by s)
AdyeC(M, n_prev, c, c2) ==
    SumSeq([x \in 1..ebins |->
        RMul(RMul(M[x][c], data[x]), RMul(M[x][c2], RatioS(n_prev, c2)))])
\* entry [c, col] of (dP_prev with row c scaled by r[c]) - [(M^T scaled by d) *
\* (M col-scaled by s)] * dP_prev
AdyeDP(M, dP_prev, n_new, n_prev, c, col) ==
    RSub(RMul(dP_prev[c][col], RatioR(n_new, n_prev, c)),
         SumSeq([c2 \in 1..cbins |-> RMul(AdyeC(M, n_prev, c, c2), dP_prev[c2][col])]))

\* the first-order term dP0[c, e * cbins + k] of a smear call with prior
\* n_prev that computed the mixing matrix M and the posterior n_new
FirstOrderOf(M, n_new, n_prev, c, e, k) ==
    LET f == SumSeq([x \in 1..cbins |-> RMul(response[e][x], n_prev[x])])
        g == RMul(data[e], SInv(f))
        offDiag == RNeg(RMul(RMul(g, M[e][c]), n_prev[k]))
        onDiag == RMul(RSub(RMul(n_prev[c], g), n_new[c]), SInv(efficiencies[c]))
    IN  IF k = c THEN RAdd(offDiag, onDiag) ELSE offDiag

\* C16: a smear that returns with the counter above 0 stores dP_new = dP0 +
\* (dP_prev with row c scaled by r[c]) - [(M^T with effect entries scaled by
\* d) * (M col-scaled by s)] * dP_prev, dP0 being the first-order term of this
\* call and dP_prev the dP stored before the call, which is the one the
\* preceding successful smear stored.
C16_AdyeResponseJacobian ==
    [][LaterSmear =>
        \A c \in 1..cbins, e \in 1..ebins, k \in 1..cbins :
            dcdP'[c][(e - 1) * cbins + k] =
                RAdd(FirstOrderOf(Mij', lastRet'.val[1], lastArg', c, e, k),
                     AdyeDP(Mij', dcdP, lastRet'.val[1], lastArg', c,
                            (e - 1) * cbins + k))]_vars

\* the second smear returned on a 2 x 2 response and stored a dP that is not
\* its first-order term
C16_Witness ==
    /\ pc = "constructed" /\ WellShaped /\ counter = 2
    /\ cbins = 2 /\ ebins = 2
    /\ lastOp = "smear" /\ lastErr = "none"
    /\ \E c \in 1..cbins, e \in 1..ebins, k \in 1..cbins :
        dcdP[c][(e - 1) * cbins + k] # FirstOrderDP(c, e, k)

\* --------------------------------------------------------------------- C17
\* C17: after every smear that returns, column c of M is all-zero and the
\* posterior is 0 in c wherever the prior or the efficiency is 0 in c, and
\* row e of M is all-zero wherever the predicted effect f[e] is 0; so a cause
\* bin that is zero in the posterior is zero again in the posterior of a
\* smear that is fed that posterior as its prior.
C17_ZeroIsAbsorbing ==
    /\ []((SmearReturned /\ WellShaped)
            => /\ \A c \in 1..cbins :
                    (lastArg[c] = <<0, 1>> \/ efficiencies[c] = <<0, 1>>)
                        => /\ \A e \in 1..ebins : Mij[e][c] = <<0, 1>>
                           /\ lastRet.val[1][c] = <<0, 1>>
               /\ \A e \in 1..ebins :
                    PredictedEffect(e) = <<0, 1>>
                        => \A c \in 1..cbins : Mij[e][c] = <<0, 1>>)
    /\ [][(pc = "constructed" /\ WellShaped /\ posterior # <<>>
            /\ lastOp' = "smear" /\ lastErr' = "none" /\ lastArg' = posterior)
          => \A c \in 1..cbins : posterior[c] = <<0, 1>> => posterior'[c] = <<0, 1>>]_vars

\* a cause bin with efficiency 0 came out zero from a prior [100, 100] and
\* stayed zero when the posterior [2, 0] was fed back
C17_Witness ==
    /\ SmearReturned /\ WellShaped /\ counter = 2
    /\ efficiencies[2] = <<0, 1>>
    /\ lastArg = <<<<2, 1>>, <<0, 1>>>>
    /\ lastRet.val[1][2] = <<0, 1>>
    /\ PredictedEffect(2) = <<0, 1>>

====
